---------------------------- MODULE Spec2Model ----------------------------
(***************************************************************************)
(* Model of the placeholder-substitution pipeline of pptmaker.             *)
(*                                                                         *)
(*   main.py       deterministic generator, run-level rewriting            *)
(*   main_temp.py  remote-model generator (lru_cache + thread pool),       *)
(*                 paragraph-level rewriting, image fix-up                 *)
(*                                                                         *)
(* A Python str is a sequence of one-character strings, so that find,      *)
(* replace, split, capitalize and the regular expressions are computed     *)
(* character by character as the interpreter computes them.                *)
(***************************************************************************)
EXTENDS Integers, Sequences, FiniteSets, TLC

VARIABLES
    prog,             \* which script runs: "main" or "main_temp"
    templateExists,   \* os.path.exists(template_path) / the file can be opened
    keySet,           \* PIXABAY_API_KEY differs from the shipped dummy value
    topic,            \* input(...).strip()
    doc0,             \* the template as opened (never written; read by the properties)
    doc,              \* prs: the live document, a sequence of slides
    pc,               \* position of the orchestrating thread
    abortAt,          \* where an uncaught exception / early return ended the run
    placeholder_map,  \* main.py: the dict, as the sequence of its <<key, value>> items
    text_placeholders,\* main_temp.py: the dict, as a function (its order: see TempRewrite)
    tasks,            \* per submitted placeholder: state of its future
    cache,            \* lru_cache of generate_ollama_content: prompt -> cached value
    calls,            \* requests.post calls issued so far: prompt -> number of calls
    slideIdx,         \* ImageFixup: index of the slide being traversed
    shapeIdx,         \* ImageFixup: index of the next shape of that slide
    toRemove,         \* placeholders_to_remove of the current slide (shape ids)
    output            \* the file written by prs.save, or NoFile

vars == <<prog, templateExists, keySet, topic, doc0, doc, pc, abortAt,
          placeholder_map, text_placeholders, tasks, cache, calls, slideIdx,
          shapeIdx, toRemove, output>>

----------------------------------------------------------------------------
(* Bounds of the model *)

\* shapes per slide of a one-slide template
MaxShapes == 2

----------------------------------------------------------------------------
(* Python str primitives *)

LowerAlpha == <<"a", "b", "c", "d", "e", "f", "g", "h", "i", "j", "k", "l", "m", "n", "o", "p", "q", "r", "s", "t", "u", "v", "w", "x", "y", "z">>
UpperAlpha == <<"A", "B", "C", "D", "E", "F", "G", "H", "I", "J", "K", "L", "M", "N", "O", "P", "Q", "R", "S", "T", "U", "V", "W", "X", "Y", "Z">>
Digits == <<"0", "1", "2", "3", "4", "5", "6", "7", "8", "9">>

\* the elements of a sequence
Range(seq) == {seq[i] : i \in DOMAIN seq}

IndexIn(seq, c) == CHOOSE i \in DOMAIN seq : seq[i] = c

UpperSet == Range(UpperAlpha)
LowerSet == Range(LowerAlpha)
DigitSet == Range(Digits)
LowerOf == [c \in UpperSet |-> LowerAlpha[IndexIn(UpperAlpha, c)]]
UpperOf == [c \in LowerSet |-> UpperAlpha[IndexIn(LowerAlpha, c)]]
DigitOf == [c \in DigitSet |-> IndexIn(Digits, c) - 1]

IsUpper(c) == c \in UpperSet
IsLower(c) == c \in LowerSet
IsAlpha(c) == IsUpper(c) \/ IsLower(c)
IsDigit(c) == c \in DigitSet
IsSpace(c) == c \in {" ", "\n", "\t"}

ToLower(c) == IF IsUpper(c) THEN LowerOf[c] ELSE c
ToUpper(c) == IF IsLower(c) THEN UpperOf[c] ELSE c

\* str.lower()
Lower(s) == [i \in DOMAIN s |-> ToLower(s[i])]

Min(a, b) == IF a < b THEN a ELSE b

\* seq[a:b] with Python's clamping (a, b >= 0, zero-based, b exclusive)
PySlice(seq, a, b) == SubSeq(seq, a + 1, Min(b, Len(seq)))

\* the k-th smallest element of a finite set of integers
Kth(S, k) == CHOOSE i \in S : Cardinality({j \in S : j <= i}) = k

\* the least element of S that is >= i, or 0
NextIn(S, i) ==
    IF \E j \in S : j >= i
    THEN CHOOSE j \in S : j >= i /\ \A k \in S : k >= i => j <= k
    ELSE 0

\* str.split(): split on runs of whitespace, no empty words
Split(s) ==
    LET starts == {i \in DOMAIN s : ~IsSpace(s[i]) /\ (i = 1 \/ IsSpace(s[i - 1]))}
        ends == {i \in DOMAIN s : ~IsSpace(s[i]) /\ (i = Len(s) \/ IsSpace(s[i + 1]))}
    IN [k \in 1..Cardinality(starts) |-> SubSeq(s, Kth(starts, k), Kth(ends, k))]

\* str.split('\n'): split on every separator, empty pieces kept
SplitLines(s) ==
    LET seps == {i \in DOMAIN s : s[i] = "\n"}
        n == Cardinality(seps)
        from(k) == IF k = 1 THEN 1 ELSE Kth(seps, k - 1) + 1
        to(k) == IF k = n + 1 THEN Len(s) ELSE Kth(seps, k) - 1
    IN [k \in 1..(n + 1) |-> SubSeq(s, from(k), to(k))]

RECURSIVE Join(_, _)
\* sep.join(words)
Join(words, sep) ==
    IF words = <<>> THEN <<>>
    ELSE IF Len(words) = 1 THEN words[1]
         ELSE words[1] \o sep \o Join(Tail(words), sep)

\* str.strip()
Strip(s) ==
    LET ink == {i \in DOMAIN s : ~IsSpace(s[i])}
    IN IF ink = {} THEN <<>>
       ELSE SubSeq(s, Kth(ink, 1), Kth(ink, Cardinality(ink)))

\* str.capitalize(): first character upper-cased, the rest lower-cased
Capitalize(s) ==
    [i \in DOMAIN s |-> IF i = 1 THEN ToUpper(s[i]) ELSE ToLower(s[i])]

\* str.title(): a letter is upper-cased when it follows a non-letter, else lower-cased
Title(s) ==
    [i \in DOMAIN s |->
        IF i = 1 \/ ~IsAlpha(s[i - 1]) THEN ToUpper(s[i]) ELSE ToLower(s[i])]

\* text[i:].startswith(pat), i one-based
StartsAt(text, i, pat) ==
    /\ i + Len(pat) - 1 <= Len(text)
    /\ \A j \in 1..Len(pat) : text[i + j - 1] = pat[j]

\* the same under re.IGNORECASE when ci
StartsAtCI(text, i, pat, ci) ==
    IF ci
    THEN /\ i + Len(pat) - 1 <= Len(text)
         /\ \A j \in 1..Len(pat) : ToLower(text[i + j - 1]) = ToLower(pat[j])
    ELSE StartsAt(text, i, pat)

\* pat in text
Contains(text, pat) == \E i \in 1..(Len(text) - Len(pat) + 1) : StartsAt(text, i, pat)

RECURSIVE ReplaceFrom(_, _, _, _)
ReplaceFrom(text, i, old, new) ==
    LET j == NextIn({k \in DOMAIN text : StartsAt(text, k, old)}, i)
    IN IF j = 0 THEN SubSeq(text, i, Len(text))
       ELSE SubSeq(text, i, j - 1) \o new \o ReplaceFrom(text, j + Len(old), old, new)

\* text.replace(old, new), old non-empty: left to right, non-overlapping
Replace(text, old, new) == ReplaceFrom(text, 1, old, new)

\* \d+ is greedy: index just past the run of digits starting at i
DigitsEnd(text, i) ==
    LET stop == NextIn({k \in DOMAIN text : ~IsDigit(text[k])}, i)
    IN IF stop = 0 THEN Len(text) + 1 ELSE stop

RECURSIVE ParseInt(_, _)
\* int(s) of a non-empty string of digits
ParseInt(s, acc) ==
    IF s = <<>> THEN acc
    ELSE ParseInt(Tail(s), 10 * acc + DigitOf[s[1]])

ToInt(s) == ParseInt(s, 0)

----------------------------------------------------------------------------
(* Regular expressions of the token grammar *)

NoMatch == [ok |-> FALSE, end |-> 0, groups |-> <<>>]

RECURSIVE MatchArgs(_, _, _, _)
\* (\d+)_(\d+)...\}\}  with n groups, from position i
MatchArgs(text, i, n, groups) ==
    IF n = 0
    THEN IF StartsAt(text, i, <<"}", "}">>)
         THEN [ok |-> TRUE, end |-> i + 1, groups |-> groups]
         ELSE NoMatch
    ELSE LET e == DigitsEnd(text, i)
             g == Append(groups, SubSeq(text, i, e - 1))
         IN IF e = i THEN NoMatch
            ELSE IF n = 1 THEN MatchArgs(text, e, 0, g)
            ELSE IF e <= Len(text) /\ text[e] = "_"
                 THEN MatchArgs(text, e + 1, n - 1, g)
                 ELSE NoMatch

\* the pattern \{\{<name>(\d+)_..._(\d+)\}\} matched at position i
MatchAt(text, i, name, nargs, ci) ==
    IF StartsAtCI(text, i, <<"{", "{">> \o name, ci)
    THEN MatchArgs(text, i + 2 + Len(name), nargs, <<>>)
    ELSE NoMatch

RECURSIVE FindIter(_, _, _, _, _)
\* re.finditer(pattern, text): non-overlapping matches, left to right,
\* each as [lit |-> match.group(0), groups |-> match.groups()]
FindIter(text, i, name, nargs, ci) ==
    LET j == NextIn({k \in DOMAIN text : MatchAt(text, k, name, nargs, ci).ok}, i)
        m == MatchAt(text, j, name, nargs, ci)
    IN IF j = 0 THEN <<>>
       ELSE <<[lit |-> SubSeq(text, j, m.end), groups |-> m.groups]>>
                \o FindIter(text, m.end + 1, name, nargs, ci)

\* re.search(pattern, text) is not None
Search(text, name, nargs, ci) == FindIter(text, 1, name, nargs, ci) # <<>>

\* .*?\}\} from position j: the first "}}" at or after j, provided no newline
\* comes before it ('.' does not match a newline); 0 when there is no match
FindClose(text, j) ==
    LET c == NextIn({k \in DOMAIN text : StartsAt(text, k, <<"}", "}">>)}, j)
    IN IF c = 0 \/ \E k \in j..(c - 1) : text[k] = "\n" THEN 0 ELSE c

RECURSIVE FindAllBraces(_, _)
\* re.findall(r"\{\{.*?\}\}", text)
FindAllBraces(text, i) ==
    LET j == NextIn({k \in DOMAIN text :
                        StartsAt(text, k, <<"{", "{">>) /\ FindClose(text, k + 2) # 0}, i)
        c == FindClose(text, j + 2)
    IN IF j = 0 THEN <<>>
       ELSE <<SubSeq(text, j, c + 1)>> \o FindAllBraces(text, c + 2)

RECURSIVE Flatten(_)
\* concatenation of a sequence of sequences
Flatten(seqs) == IF seqs = <<>> THEN <<>> ELSE seqs[1] \o Flatten(Tail(seqs))

----------------------------------------------------------------------------
(* main.py: the deterministic generator *)

SuffixWords ==
    << <<"i", "n", "t", "e", "l", "l", "i", "g", "e", "n", "c", "e">>, <<"s", "y", "s", "t", "e", "m", "s">>, <<"a", "u", "t", "o", "m", "a", "t", "i", "o", "n">>, <<"f", "u", "t", "u", "r", "e">>, <<"s", "o", "l", "u", "t", "i", "o", "n", "s">>,
       <<"i", "n", "s", "i", "g", "h", "t", "s">>, <<"t", "e", "c", "h">>, <<"p", "e", "r", "f", "o", "r", "m", "a", "n", "c", "e">>, <<"m", "a", "n", "a", "g", "e", "m", "e", "n", "t">> >>

BaseWords(t) == Split(Lower(t)) \o SuffixWords

\* a faulty variant of TopicWords that starts at the second word of the pool
TopicWords_Mut(t) == PySlice(BaseWords(t), 1, 3)

\* placeholder_type == "topic"
TopicWords(t) == PySlice(BaseWords(t), 0, 2)

\* placeholder_type == "title" / "subtitle", args = (part, limit)
TitleContent(t, part, limit) ==
    LET bw == BaseWords(t)
        words == IF part > 0 THEN PySlice(bw, part - 1, part - 1 + limit)
                 ELSE PySlice(bw, 0, limit)
    IN Title(Join(PySlice(words, 0, limit), <<" ">>))

RECURSIVE Extend(_, _, _)
\* while len(words) < limit: words.extend(base)
Extend(words, base, limit) ==
    IF Len(words) < limit THEN Extend(words \o base, base, limit) ELSE words

\* placeholder_type == "para", args = limit
ParaContent(t, limit) ==
    Capitalize(Join(PySlice(Extend(<<>>, BaseWords(t), limit), 0, limit), <<" ">>)) \o <<".">>

\* one bullet line: "- " + six words starting at offset i
BulletLine(t, i) ==
    LET bw == BaseWords(t)
        b == Extend(PySlice(bw, i, i + 6), bw, 6)
    IN <<"-", " ">> \o Join(PySlice(b, 0, 6), <<" ">>)

\* placeholder_type == "bullet", args = count
BulletContent(t, count) ==
    Join([i \in 1..count |-> BulletLine(t, i - 1)], <<"\n">>)

ThankContent(t) ==
    <<"T", "h", "a", "n", "k", " ", "y", "o", "u", " ", "f", "o", "r", " ", "l", "e", "a", "r", "n", "i", "n", "g", " ", "a", "b", "o", "u", "t", " ">> \o t \o <<"!", " ", "W", "e", " ", "h", "o", "p", "e", " ", "i", "t", " ", "w", "a", "s", " ", "i", "n", "s", "i", "g", "h", "t", "f", "u", "l", ".">>

GraphMarker == <<"[", "G", "r", "a", "p", "h", " ", "P", "l", "a", "c", "e", "h", "o", "l", "d", "e", "r", "]">>
IconMarker == <<"[", "I", "c", "o", "n", " ", "P", "l", "a", "c", "e", "h", "o", "l", "d", "e", "r", "]">>
PersonName == <<"D", "y", "i", "z", "a", "n", " ", "I", "n", "t", "e", "r", "n">>

\* generate_content(placeholder_type, topic, args)
generate_content(kind, t, args) ==
    CASE kind = "topic" -> TopicWords(t)
      [] kind \in {"title", "subtitle"} -> TitleContent(t, args[1], args[2])
      [] kind = "para" -> ParaContent(t, args[1])
      [] kind = "bullet" -> BulletContent(t, args[1])
      [] kind = "thankumess" -> ThankContent(t)
      [] kind = "graphimage" -> GraphMarker
      [] kind = "icon" -> IconMarker
      [] kind = "personname" -> PersonName


----------------------------------------------------------------------------
(* The document: slides of shapes; a shape may carry a text frame of        *)
(* paragraphs, each a sequence of runs                                      *)

\* python dict with insertion order: d[k] = v
DictSet(d, k, v) ==
    IF \E i \in DOMAIN d : d[i][1] = k
    THEN [i \in DOMAIN d |-> IF d[i][1] = k THEN <<k, v>> ELSE d[i]]
    ELSE Append(d, <<k, v>>)

DictKeys(d) == {d[i][1] : i \in DOMAIN d}
DictGet(d, k) == d[CHOOSE i \in DOMAIN d : d[i][1] = k][2]

RECURSIVE DictUpdate(_, _)
\* a sequence of assignments d[k] = v, in order
DictUpdate(d, kvs) ==
    IF kvs = <<>> THEN d
    ELSE DictUpdate(DictSet(d, kvs[1][1], kvs[1][2]), Tail(kvs))

\* paragraph.text: the runs concatenated
ParaText(para) == Flatten(para)

\* shape.text_frame.text: the paragraphs joined by newlines
FrameText(shape) ==
    Join([i \in DOMAIN shape.paragraphs |-> ParaText(shape.paragraphs[i])], <<"\n">>)

\* the texts a template shape is drawn from
TextMenu ==
    << <<<<<<"{", "{", "b", "u", "l", "l", "e", "t", "1", "_", "2", "}", "}">>>>>>,
       <<<<<<"{", "{", "P", "e", "r", "s", "o", "n", "N", "a", "m", "e", "}", "}">>>>>>,
       <<<<<<"N", "o", "t", "e", ":", " ">>, <<"{", "{", "f", "o", "o", "b", "a", "r", "}", "}">>>>>>,
       <<<<<<"{", "{", "t", "o", "p", "i", "c", "1", "_", "1", "}", "}", " ", "{", "{", "t", "o", "p", "i", "c", "1", "_", "2", "}", "}">>>>>>,
       <<<<<<"{", "{", "t", "o", "p", "i", "c", "2", "_", "1", "}", "}">>>>>>,
       <<<<<<"{", "{", "g", "r", "a", "p", "h", "i", "m", "a", "g", "e", "}", "}", "{", "{", "i", "c", "o", "n", "1", "}", "}">>>>>>,
       <<<<<<"{", "{", "t", "o", "p", "i", "c", "1", "_", "x", "}", "}">>>>>> >>

\* a shape of the template: menu entry m at position id of its slide;
\* entry 0 is a shape without a text frame
MenuShape(m, id) ==
    [id |-> id,
     has_text_frame |-> m # 0,
     paragraphs |-> IF m = 0 THEN <<>> ELSE TextMenu[m],
     box |-> [left |-> id, top |-> m, width |-> m + 1, height |-> id + 1],
     picture |-> FALSE]

SlidesOf(n) ==
    {[i \in 1..n |-> MenuShape(c[i], i)] : c \in [1..n -> 0..Len(TextMenu)]}

\* templates: one slide of up to MaxShapes shapes, or two slides of one shape
Templates ==
    {<<s>> : s \in UNION {SlidesOf(n) : n \in 1..MaxShapes}}
        \cup {<<s, t>> : s \in SlidesOf(1), t \in SlidesOf(1)}

Topics == {<<>>, <<"C", "l", "o", "u", "d", " ", "S", "e", "c", "u", "r", "i", "t", "y">>, <<"A", "I">>}

\* main_temp.py uses the topic in its prompts only
TempTopics == {<<>>, <<"C", "l", "o", "u", "d", " ", "S", "e", "c", "u", "r", "i", "t", "y">>}

NoFile == [written |-> FALSE, slides |-> <<>>]

\* the runs of a document in traversal order (slides, shapes, paragraphs, runs)
AllRuns(d) ==
    Flatten([s \in DOMAIN d |->
        Flatten([h \in DOMAIN d[s] |->
            IF d[s][h].has_text_frame THEN Flatten(d[s][h].paragraphs) ELSE <<>>])])

----------------------------------------------------------------------------
(* main.py: generate_ppt and replace_placeholders *)

\* the assignments placeholder_map[match.group(0)] = content of one finditer loop
Assignments(text, kind, name, nargs, t) ==
    LET ms == FindIter(text, 1, name, nargs, TRUE)
    IN [i \in DOMAIN ms |->
          <<ms[i].lit,
            generate_content(kind, t,
                [j \in 1..(nargs - 1) |-> ToInt(ms[i].groups[j + 1])])>>]

\* the static placeholders: the key is the lower-case literal f"{{{{{key}}}}}"
StaticAssignments(text, t) ==
    Flatten([k \in 1..3 |->
        LET key == <<"thankumess", "personname", "graphimage">>[k]
            name == <<<<"t", "h", "a", "n", "k", "u", "m", "e", "s", "s">>, <<"p", "e", "r", "s", "o", "n", "n", "a", "m", "e">>, <<"g", "r", "a", "p", "h", "i", "m", "a", "g", "e">>>>[k]
        IN IF Search(text, name, 0, TRUE)
           THEN <<<<<<"{", "{">> \o name \o <<"}", "}">>, generate_content(key, t, <<>>)>>>>
           ELSE <<>>])

\* the body of the scan loop for one run
ScanRun(text, t) ==
    Assignments(text, "title", <<"t", "i", "t", "l", "e">>, 3, t)
        \o Assignments(text, "subtitle", <<"s", "u", "b", "t", "i", "t", "l", "e">>, 3, t)
        \o Assignments(text, "para", <<"p", "a", "r", "a">>, 2, t)
        \o Assignments(text, "bullet", <<"b", "u", "l", "l", "e", "t">>, 2, t)
        \o StaticAssignments(text, t)
        \o Assignments(text, "icon", <<"i", "c", "o", "n">>, 1, t)

\* placeholder_map after "Scan & generate content"
MainScanMap(d, t) ==
    LET tw == generate_content("topic", t, <<>>)
        init == << <<<<"{", "{", "t", "o", "p", "i", "c", "1", "_", "1", "}", "}">>, Capitalize(tw[1])>>,
                   <<<<"{", "{", "t", "o", "p", "i", "c", "1", "_", "2", "}", "}">>, Capitalize(tw[2])>> >>
        runs == AllRuns(d)
    IN DictUpdate(init, Flatten([i \in DOMAIN runs |-> ScanRun(runs[i], t)]))

RECURSIVE RunRewrite(_, _, _)
\* replace_placeholders on one run: text is read once, before the loop over the map
RunRewrite(text, cur, m) ==
    IF m = <<>> THEN cur
    ELSE IF Contains(text, m[1][1])
         THEN RunRewrite(text, Replace(text, m[1][1], Replace(m[1][2], <<"\\", "n">>, <<"\n">>)),
                         Tail(m))
         ELSE RunRewrite(text, cur, Tail(m))

replace_placeholders(slide, m) ==
    [h \in DOMAIN slide |->
        IF slide[h].has_text_frame
        THEN [slide[h] EXCEPT !.paragraphs =
                [p \in DOMAIN @ |-> [r \in DOMAIN @[p] |-> RunRewrite(@[p][r], @[p][r], m)]]]
        ELSE slide[h]]

\* __main__ and the first lines of generate_ppt: no check of the topic;
\* Presentation(template_path) raises when the file is missing
MainStart ==
    /\ prog = "main" /\ pc = "start"
    /\ IF templateExists
       THEN pc' = "scan" /\ UNCHANGED abortAt
       ELSE pc' = "aborted" /\ abortAt' = "open_template"
    /\ UNCHANGED <<prog, templateExists, keySet, topic, doc0, doc, placeholder_map,
                   text_placeholders, tasks, cache, calls, slideIdx, shapeIdx, toRemove, output>>

MainScan ==
    /\ prog = "main" /\ pc = "scan"
    /\ placeholder_map' = MainScanMap(doc, topic)
    /\ pc' = "rewrite"
    /\ UNCHANGED <<prog, templateExists, keySet, topic, doc0, doc, abortAt,
                   text_placeholders, tasks, cache, calls, slideIdx, shapeIdx, toRemove, output>>

MainRewrite ==
    /\ prog = "main" /\ pc = "rewrite"
    /\ doc' = [s \in DOMAIN doc |-> replace_placeholders(doc[s], placeholder_map)]
    /\ pc' = "save"
    /\ UNCHANGED <<prog, templateExists, keySet, topic, doc0, abortAt, placeholder_map,
                   text_placeholders, tasks, cache, calls, slideIdx, shapeIdx, toRemove, output>>

\* prs.save(output_path)
Save ==
    /\ pc = "save"
    /\ output' = [written |-> TRUE, slides |-> doc]
    /\ pc' = "done"
    /\ UNCHANGED <<prog, templateExists, keySet, topic, doc0, doc, abortAt,
                   placeholder_map, text_placeholders, tasks, cache, calls, slideIdx,
                   shapeIdx, toRemove>>

----------------------------------------------------------------------------
(* main_temp.py: the remote-model generator *)

MAX_WORKERS == 4

\* the string generate_ollama_content returns on a RequestException
ErrorString == <<"E", "r", "r", "o", "r", ":", " ", "C", "o", "u", "l", "d", " ", "n", "o", "t", " ", "g", "e", "n", "e", "r", "a", "t", "e", " ", "c", "o", "n", "t", "e", "n", "t", ".">>

\* completions the text-generation service may return (response.json()["response"])
Completions == {<<" ", "z", "e", "r", "o", " ", "t", "r", "u", "s", "t", "\n">>, <<"o", "k">>}

\* outcomes of one requests.post + response handling
CallOutcomes ==
    {[kind |-> "ok", text |-> c] : c \in Completions}
        \cup {[kind |-> "request_error", text |-> <<>>],
              [kind |-> "malformed", text |-> <<>>]}

BulletMark == "*"   \* stands for U+2022, the bullet character of line 103

\* which branch of generate_content_for_placeholder takes the placeholder
Branch(ph) ==
    IF Contains(ph, <<"t", "o", "p", "i", "c", "1", "_">>) THEN "topic"
    ELSE IF MatchAt(ph, 1, <<"t", "i", "t", "l", "e">>, 3, FALSE).ok THEN "title"
    ELSE IF MatchAt(ph, 1, <<"s", "u", "b", "t", "i", "t", "l", "e">>, 3, FALSE).ok THEN "subtitle"
    ELSE IF MatchAt(ph, 1, <<"p", "a", "r", "a">>, 2, FALSE).ok THEN "para"
    ELSE IF MatchAt(ph, 1, <<"b", "u", "l", "l", "e", "t">>, 2, FALSE).ok THEN "bullet"
    ELSE IF ph = <<"{", "{", "p", "e", "r", "s", "o", "n", "n", "a", "m", "e", "}", "}">> THEN "personname"
    ELSE IF ph = <<"{", "{", "t", "h", "a", "n", "k", "u", "m", "e", "s", "s", "}", "}">> THEN "thankumess"
    ELSE "none"

\* the last group of the pattern the placeholder matched, as an int
LastGroup(ph, name, nargs) == ToInt(MatchAt(ph, 1, name, nargs, FALSE).groups[nargs])

\* the prompt: the f-string is determined by the topic (fixed during a run), the
\* branch and the number formatted into it; it is kept as that triple
PromptOf(ph, t) ==
    LET b == Branch(ph)
    IN CASE b = "topic" -> <<t, b, 0>>
         [] b = "title" -> <<t, b, LastGroup(ph, <<"t", "i", "t", "l", "e">>, 3)>>
         [] b = "subtitle" -> <<t, b, LastGroup(ph, <<"s", "u", "b", "t", "i", "t", "l", "e">>, 3)>>
         [] b = "para" -> <<t, b, LastGroup(ph, <<"p", "a", "r", "a">>, 2)>>
         [] b = "bullet" -> <<t, b, LastGroup(ph, <<"b", "u", "l", "l", "e", "t">>, 2)>>
         [] b = "personname" -> <<t, b, 0>>
         [] b = "thankumess" -> <<t, b, 12>>

\* placeholder.split('_')[-1].replace('}}', '')
TopicPart(ph) ==
    LET us == {i \in DOMAIN ph : ph[i] = "_"}
    IN Replace(SubSeq(ph, Kth(us, Cardinality(us)) + 1, Len(ph)), <<"}", "}">>, <<>>)

\* [f"<mark> {line.strip()}" for line in content.split('\n') if line.strip()]
BulletLines(content) ==
    LET lines == SplitLines(content)
        keep == {i \in DOMAIN lines : Strip(lines[i]) # <<>>}
    IN [k \in 1..Cardinality(keep) |-> <<BulletMark, " ">> \o Strip(lines[Kth(keep, k)])]

\* what generate_content_for_placeholder returns, given what
\* generate_ollama_content returned for its prompt
Finish(ph, content) ==
    LET b == Branch(ph)
        words == Split(content)
    IN CASE b = "topic" ->
              IF Len(words) >= 2
              THEN (IF TopicPart(ph) = <<"1">> THEN Capitalize(words[1])
                    ELSE Capitalize(words[2]))
              ELSE (IF TopicPart(ph) = <<"1">> THEN <<"T", "o", "p", "i", "c">> ELSE <<"E", "s", "s", "e", "n", "c", "e">>)
         [] b = "title" ->
              Title(Join(PySlice(words, 0, LastGroup(ph, <<"t", "i", "t", "l", "e">>, 3)), <<" ">>))
         [] b = "subtitle" ->
              Title(Join(PySlice(words, 0, LastGroup(ph, <<"s", "u", "b", "t", "i", "t", "l", "e">>, 3)), <<" ">>))
         [] b = "para" ->
              Capitalize(Join(PySlice(words, 0, LastGroup(ph, <<"p", "a", "r", "a">>, 2)), <<" ">>)) \o <<".">>
         [] b = "bullet" ->
              Join(PySlice(BulletLines(content), 0, LastGroup(ph, <<"b", "u", "l", "l", "e", "t">>, 2)), <<"\n">>)
         [] b = "personname" -> content
         [] b = "thankumess" -> Join(PySlice(words, 0, 12), <<" ">>)

\* placeholders_to_find: every match of \{\{.*?\}\} in every text frame
PlaceholdersToFind(d) ==
    UNION {UNION {IF d[s][h].has_text_frame
                  THEN Range(FindAllBraces(FrameText(d[s][h]), 1))
                  ELSE {} : h \in DOMAIN d[s]} : s \in DOMAIN d}

\* text_placeholders_to_generate, as a set
ToGenerate(d) ==
    {ph \in PlaceholdersToFind(d) :
        ~StartsAt(ph, 1, <<"{", "{", "g", "r", "a", "p", "h">>) /\ ~StartsAt(ph, 1, <<"{", "{", "i", "c", "o", "n">>)}

\* the orders in which a Python set may be iterated
Orders(S) ==
    {p \in [1..Cardinality(S) -> S] : \A i, j \in 1..Cardinality(S) : p[i] = p[j] => i = j}

\* __main__ (empty topic is refused) and the os.path.exists check of generate_ppt
TempStart ==
    /\ prog = "main_temp" /\ pc = "start"
    /\ IF topic = <<>>
       THEN pc' = "aborted" /\ abortAt' = "empty_topic"
       ELSE IF ~templateExists
            THEN pc' = "aborted" /\ abortAt' = "no_template"
            ELSE pc' = "scan" /\ UNCHANGED abortAt
    /\ UNCHANGED <<prog, templateExists, keySet, topic, doc0, doc, placeholder_map,
                   text_placeholders, tasks, cache, calls, slideIdx, shapeIdx, toRemove, output>>

\* Step 1 up to the submission of one future per placeholder
TempScan ==
    /\ prog = "main_temp" /\ pc = "scan"
    /\ tasks' = [ph \in ToGenerate(doc) |->
                    [st |-> "queued", result |-> <<>>, outcome |-> "none"]]
    /\ pc' = "resolve"
    /\ UNCHANGED <<prog, templateExists, keySet, topic, doc0, doc, abortAt,
                   placeholder_map, text_placeholders, cache, calls, slideIdx,
                   shapeIdx, toRemove, output>>

\* one more requests.post with prompt p
CountCall(c, p) ==
    [q \in DOMAIN c \cup {p} |-> IF q = p THEN (IF p \in DOMAIN c THEN c[p] + 1 ELSE 1)
                                 ELSE c[q]]

\* a faulty variant of CacheHit: a cache that never hits
CacheHit_Mut(p) == FALSE

\* lru_cache lookup (maxsize=1024 is never reached: no eviction)
CacheHit(p) == p \in DOMAIN cache

\* A worker takes a work item and runs generate_content_for_placeholder up to the
\* cache lookup of generate_ollama_content; on a miss it issues the request.
\* The items are queued in the iteration order of a Python set, which is
\* arbitrary: any queued item may be the next one, while a worker is free.
TaskStart(ph) ==
       /\ pc = "resolve"
       /\ tasks[ph].st = "queued"
       /\ Cardinality({q \in DOMAIN tasks : tasks[q].st = "calling"}) < MAX_WORKERS
       /\ IF Branch(ph) = "none"
          THEN /\ tasks' = [tasks EXCEPT ![ph] =
                              [st |-> "done", result |-> ph, outcome |-> "local"]]
               /\ UNCHANGED calls
          ELSE IF CacheHit(PromptOf(ph, topic))
               THEN /\ tasks' = [tasks EXCEPT ![ph] =
                                   [st |-> "done",
                                    result |-> Finish(ph, cache[PromptOf(ph, topic)]),
                                    outcome |-> "cached"]]
                    /\ UNCHANGED calls
               ELSE /\ tasks' = [tasks EXCEPT ![ph].st = "calling"]
                    /\ calls' = CountCall(calls, PromptOf(ph, topic))
       /\ UNCHANGED <<prog, templateExists, keySet, topic, doc0, doc, pc, abortAt,
                      placeholder_map, text_placeholders, cache, slideIdx, shapeIdx,
                      toRemove, output>>

\* lru_cache stores the result of a finished call unless the key was added meanwhile
CacheStore(c, p, v) ==
    IF p \in DOMAIN c THEN c ELSE [q \in DOMAIN c \cup {p} |-> IF q = p THEN v ELSE c[q]]

\* the request of a task returns: a completion, a RequestException (caught, the
\* error string is returned and cached) or a response without a usable "response"
\* field (KeyError / AttributeError, not caught by generate_ollama_content)
TaskResponse(ph, o) ==
    /\ pc = "resolve"
    /\ tasks[ph].st = "calling"
    /\ IF o.kind = "malformed"
       THEN /\ tasks' = [tasks EXCEPT ![ph] =
                           [st |-> "raised", result |-> <<>>, outcome |-> o.kind]]
            /\ UNCHANGED cache
       ELSE LET v == IF o.kind = "request_error" THEN ErrorString ELSE Strip(o.text)
            IN /\ tasks' = [tasks EXCEPT ![ph] =
                              [st |-> "done", result |-> Finish(ph, v),
                               outcome |-> o.kind]]
               /\ cache' = CacheStore(cache, PromptOf(ph, topic), v)
    /\ UNCHANGED <<prog, templateExists, keySet, topic, doc0, doc, pc, abortAt,
                   placeholder_map, text_placeholders, calls, slideIdx, shapeIdx,
                   toRemove, output>>

\* the loop over the futures: future.result(), or the placeholder itself when the
\* task raised
Collect ==
    /\ pc = "resolve"
    /\ \A ph \in DOMAIN tasks : tasks[ph].st \in {"done", "raised"}
    /\ text_placeholders' =
          [ph \in DOMAIN tasks |->
              IF tasks[ph].st = "raised" THEN ph ELSE tasks[ph].result]
    /\ pc' = "rewrite"
    /\ UNCHANGED <<prog, templateExists, keySet, topic, doc0, doc, abortAt,
                   placeholder_map, tasks, cache, calls, slideIdx, shapeIdx, toRemove,
                   output>>

RECURSIVE ShapeRewrite(_, _)
\* Step 2 on one shape: for each map entry found in the frame text, every paragraph
\* containing it is set to its text with the entry replaced (one run remains)
ShapeRewrite(shape, m) ==
    IF m = <<>> THEN shape
    ELSE IF Contains(FrameText(shape), m[1][1])
         THEN ShapeRewrite(
                [shape EXCEPT !.paragraphs =
                    [p \in DOMAIN @ |->
                        IF Contains(ParaText(@[p]), m[1][1])
                        THEN <<Replace(ParaText(@[p]), m[1][1], m[1][2])>>
                        ELSE @[p]]],
                Tail(m))
         ELSE ShapeRewrite(shape, Tail(m))

\* text_placeholders.items() follows the order in which the futures were
\* submitted, the iteration order of the set placeholders_to_find: any order
TempRewrite ==
    /\ prog = "main_temp" /\ pc = "rewrite"
    /\ \E o \in Orders(DOMAIN text_placeholders) :
          doc' = [s \in DOMAIN doc |->
                   [h \in DOMAIN doc[s] |->
                       IF doc[s][h].has_text_frame
                       THEN ShapeRewrite(doc[s][h],
                               [i \in DOMAIN o |-> <<o[i], text_placeholders[o[i]]>>])
                       ELSE doc[s][h]]]
    /\ pc' = "fixup"
    /\ slideIdx' = 1
    /\ shapeIdx' = 1
    /\ toRemove' = <<>>
    /\ UNCHANGED <<prog, templateExists, keySet, topic, doc0, abortAt, placeholder_map,
                   text_placeholders, tasks, cache, calls, output>>

\* outcomes of get_image_url followed by the download and add_picture
ImageOutcomes ==
    IF keySet
    THEN {"embedded", "embed_failed", "no_hit", "request_error", "malformed"}
    ELSE {"no_key"}

\* slide.shapes.add_picture(stream, shape.left, shape.top, width, height)
AddPicture(shapes, shape) ==
    Append(shapes,
           [id |-> Len(shapes) + 1, has_text_frame |-> FALSE, paragraphs |-> <<>>,
            box |-> shape.box, picture |-> TRUE])

HasGraph(shape) == shape.has_text_frame /\ Contains(FrameText(shape), <<"{", "{", "g", "r", "a", "p", "h", "i", "m", "a", "g", "e", "}", "}">>)
HasIcon(shape) == shape.has_text_frame /\ Search(FrameText(shape), <<"i", "c", "o", "n">>, 1, FALSE)

\* Step 3, the body of "for shape in slide.shapes" for one shape: og and oi are the
\* outcomes of the graph and of the icon handler ("skip": the handler does not run)
FixupShape(og, oi) ==
    LET shapes == doc[slideIdx]
        shape == shapes[shapeIdx]
        afterGraph == IF og = "embedded" THEN AddPicture(shapes, shape) ELSE shapes
        afterIcon == IF oi = "embedded" THEN AddPicture(afterGraph, shape) ELSE afterGraph
        marks == (IF og = "embedded" THEN <<shape.id>> ELSE <<>>)
                    \o (IF oi = "embedded" THEN <<shape.id>> ELSE <<>>)
    IN /\ prog = "main_temp" /\ pc = "fixup"
       /\ slideIdx <= Len(doc)
       /\ shapeIdx <= Len(shapes)
       /\ og \in (IF HasGraph(shape) THEN ImageOutcomes ELSE {"skip"})
       /\ oi \in (IF HasIcon(shape) /\ og # "malformed" THEN ImageOutcomes ELSE {"skip"})
       /\ doc' = [doc EXCEPT ![slideIdx] = afterIcon]
       /\ toRemove' = toRemove \o marks
       /\ IF "malformed" \in {og, oi}
          THEN pc' = "aborted" /\ abortAt' = "get_image_url" /\ UNCHANGED shapeIdx
          ELSE shapeIdx' = shapeIdx + 1 /\ UNCHANGED <<pc, abortAt>>
       /\ UNCHANGED <<prog, templateExists, keySet, topic, doc0, placeholder_map,
                      text_placeholders, tasks, cache, calls, slideIdx, output>>

RECURSIVE RemoveAll(_, _)
\* "for shape in placeholders_to_remove: sp.getparent().remove(sp)": the parent of
\* an element already removed is None, and None.remove raises
RemoveAll(shapes, ids) ==
    IF ids = <<>> THEN [ok |-> TRUE, shapes |-> shapes]
    ELSE IF \E i \in DOMAIN shapes : shapes[i].id = ids[1]
         THEN RemoveAll(SelectSeq(shapes, LAMBDA x : x.id # ids[1]), Tail(ids))
         ELSE [ok |-> FALSE, shapes |-> shapes]

\* the end of the loop over the shapes of one slide
EndSlide ==
    LET r == RemoveAll(doc[slideIdx], toRemove)
    IN /\ prog = "main_temp" /\ pc = "fixup"
       /\ slideIdx <= Len(doc)
       /\ shapeIdx > Len(doc[slideIdx])
       /\ doc' = [doc EXCEPT ![slideIdx] = r.shapes]
       /\ toRemove' = <<>>
       /\ IF ~r.ok
          THEN pc' = "aborted" /\ abortAt' = "remove_shape"
                  /\ UNCHANGED <<slideIdx, shapeIdx>>
          ELSE /\ slideIdx' = slideIdx + 1
               /\ shapeIdx' = 1
               /\ pc' = IF slideIdx = Len(doc) THEN "save" ELSE "fixup"
               /\ UNCHANGED abortAt
       /\ UNCHANGED <<prog, templateExists, keySet, topic, doc0, placeholder_map,
                      text_placeholders, tasks, cache, calls, output>>

\* get_image_url, the only reader of PIXABAY_API_KEY, is called for these shapes
ReadsKey(d) ==
    \E s \in DOMAIN d : \E h \in DOMAIN d[s] : HasGraph(d[s][h]) \/ HasIcon(d[s][h])

Init ==
    /\ prog \in {"main", "main_temp"}
    /\ templateExists \in BOOLEAN
    /\ topic \in (IF prog = "main" THEN Topics ELSE TempTopics)
    /\ doc0 \in (IF templateExists THEN Templates ELSE {<<>>})
    /\ keySet \in (IF prog = "main_temp" /\ ReadsKey(doc0) THEN BOOLEAN ELSE {FALSE})
    /\ doc = doc0
    /\ pc = "start"
    /\ abortAt = "none"
    /\ placeholder_map = <<>>
    /\ text_placeholders = <<>>
    /\ tasks = <<>>
    /\ cache = <<>>
    /\ calls = <<>>
    /\ slideIdx = 0
    /\ shapeIdx = 0
    /\ toRemove = <<>>
    /\ output = NoFile

Next ==
    \/ MainStart
    \/ MainScan
    \/ MainRewrite
    \/ Save
    \/ TempStart
    \/ TempScan
    \/ \E ph \in DOMAIN tasks : TaskStart(ph)
    \/ \E ph \in DOMAIN tasks, o \in CallOutcomes : TaskResponse(ph, o)
    \/ Collect
    \/ TempRewrite
    \/ \E og, oi \in ImageOutcomes \cup {"skip"} : FixupShape(og, oi)
    \/ EndSlide

Spec == Init /\ [][Next]_vars


\* the runs of main_temp.py up to the end of Step 1 (the thread pool block)
InitResolve == Init /\ prog = "main_temp"

NextResolve ==
    \/ TempStart
    \/ TempScan
    \/ \E ph \in DOMAIN tasks : TaskStart(ph)
    \/ \E ph \in DOMAIN tasks, o \in CallOutcomes : TaskResponse(ph, o)
    \/ Collect

SpecResolve == InitResolve /\ [][NextResolve]_vars

----------------------------------------------------------------------------
(* Properties *)

\* the paragraph texts of a document in traversal order
AllParas(d) ==
    Flatten([s \in DOMAIN d |->
        Flatten([h \in DOMAIN d[s] |->
            IF d[s][h].has_text_frame
            THEN [p \in DOMAIN d[s][h].paragraphs |-> ParaText(d[s][h].paragraphs[p])]
            ELSE <<>>])])

\* main.py has finished its rewrite pass
MainRewritten == prog = "main" /\ pc \in {"save", "done"}

\* main_temp.py has just finished Step 2
TempRewritten == prog = "main_temp" /\ pc = "fixup" /\ slideIdx = 1 /\ shapeIdx = 1

\* the run has a template and a non-empty topic
ValidInput == templateExists /\ topic # <<>>

\* no remote text-generation call of the run has failed
NoRemoteFailure ==
    \A ph \in DOMAIN tasks : tasks[ph].outcome \notin {"request_error", "malformed"}

\* the entries of the map of the running program, as a set of <<key, value>>
MapEntries ==
    IF prog = "main"
    THEN {<<placeholder_map[i][1], Replace(placeholder_map[i][2], <<"\\", "n">>, <<"\n">>)>> :
             i \in DOMAIN placeholder_map}
    ELSE {<<ph, text_placeholders[ph]>> : ph \in DOMAIN text_placeholders}

\* C1: after the rewrite pass no text unit (run in main.py, paragraph in
\* main_temp.py) still contains a map key, with a value different from the key,
\* that it contained before the pass
C1_AllKeysReplaced ==
    LET before == IF prog = "main" THEN AllRuns(doc0) ELSE AllParas(doc0)
        after == IF prog = "main" THEN AllRuns(doc) ELSE AllParas(doc)
    IN (ValidInput /\ NoRemoteFailure /\ (MainRewritten \/ TempRewritten)) =>
          \A i \in DOMAIN before : \A e \in MapEntries :
              (e[1] # e[2] /\ Contains(before[i], e[1])) => ~Contains(after[i], e[1])

\* the literals match.group(0) of every pattern of main.py in one run
MatchedLiterals(text) ==
    UNION {{m.lit : m \in Range(FindIter(text, 1, pn[1], pn[2], TRUE))} :
              pn \in {<<<<"t", "i", "t", "l", "e">>, 3>>, <<<<"s", "u", "b", "t", "i", "t", "l", "e">>, 3>>, <<<<"p", "a", "r", "a">>, 2>>,
                      <<<<"b", "u", "l", "l", "e", "t">>, 2>>, <<<<"t", "h", "a", "n", "k", "u", "m", "e", "s", "s">>, 0>>, <<<<"p", "e", "r", "s", "o", "n", "n", "a", "m", "e">>, 0>>,
                      <<<<"g", "r", "a", "p", "h", "i", "m", "a", "g", "e">>, 0>>, <<<<"i", "c", "o", "n">>, 1>>}}

\* the token literals the scan of the running program matched in the template
ScannedLiterals ==
    IF prog = "main"
    THEN UNION {MatchedLiterals(AllRuns(doc0)[i]) : i \in DOMAIN AllRuns(doc0)}
    ELSE ToGenerate(doc0)

\* C2: when rewriting begins, every literal the scan matched is a key of the map,
\* and no key has two entries
C2_ScannedLiteralsAreKeys ==
    (ValidInput /\ pc = "rewrite") =>
        /\ \A l \in ScannedLiterals : \E e \in MapEntries : e[1] = l
        /\ \A e, f \in MapEntries : e[1] = f[1] => e = f

\* C3: with an existing template and a non-empty topic no run is aborted
C3_NoAbortAfterPreconditions ==
    (templateExists /\ topic # <<>>) => pc # "aborted"

\* C4: a failed remote call never makes the resolver raise, and the map entry of
\* the token whose call failed carries the error tag
C4_FailureGivesTaggedEntry ==
    \A ph \in DOMAIN tasks :
        /\ tasks[ph].st # "raised"
        /\ (tasks[ph].outcome \in {"request_error", "malformed"}
                /\ ph \in DOMAIN text_placeholders)
              => Contains(text_placeholders[ph], <<"E", "r", "r", "o", "r", ":">>)

\* a shape of the template that Step 3 handles
ImageShape(shape) == HasGraph(shape) \/ HasIcon(shape)

\* the outcome of Step 3 on slide s: the shapes that are gone had an image token,
\* each of them is matched by one picture with its bounding box, and the shapes
\* that remain keep their box
SlideFixed(s) ==
    LET orig == doc0[s]
        now == doc[s]
        gone == {h \in DOMAIN orig : ~\E i \in DOMAIN now : now[i].id = orig[h].id /\ ~now[i].picture}
        pics == {i \in DOMAIN now : now[i].picture}
    IN /\ \A h \in gone : ImageShape(orig[h])
       /\ Cardinality(pics) = Cardinality(gone)
       /\ \A h \in gone : \E i \in pics : now[i].box = orig[h].box
       /\ \A i \in pics : \E h \in gone : now[i].box = orig[h].box

\* C5: Step 3 never fails while removing a shape, and when it has finished every
\* slide holds one picture per removed image shape, at the same bounding box
C5_FixupReplacesShape ==
    /\ abortAt # "remove_shape"
    /\ (prog = "main_temp" /\ pc \in {"save", "done"}) =>
           \A s \in DOMAIN doc : SlideFixed(s)

\* a resolved bullet list: y lines, each holding a marker and six words
BulletShape(v, y) ==
    LET lines == SplitLines(v)
    IN /\ Len(lines) = y
       /\ \A i \in DOMAIN lines : Len(Split(lines[i])) = 7

\* C6: the value resolved for a bullet-list token with count Y has exactly Y lines
\* of exactly six words each (in runs where no remote call failed)
C6_BulletLinesAndWords ==
    (ValidInput /\ NoRemoteFailure /\ pc = "rewrite") =>
        \A e \in MapEntries :
            LET m == MatchAt(e[1], 1, <<"b", "u", "l", "l", "e", "t">>, 2, TRUE)
            IN (m.ok /\ m.end = Len(e[1])) => BulletShape(e[2], ToInt(m.groups[2]))

\* the topic-token literals {{topicX_Y}}, Y in {1, 2}, of a text
TopicTokens(text) ==
    {m \in Range(FindIter(text, 1, <<"t", "o", "p", "i", "c">>, 2, FALSE)) : m.groups[2] \in {<<"1">>, <<"2">>}}

\* the topic tokens of the template
DocTopicTokens ==
    UNION {TopicTokens(AllParas(doc0)[i]) : i \in DOMAIN AllParas(doc0)}

\* the capitalized two-word summary of the deterministic strategy
Summary(t) ==
    CASE t = <<"C", "l", "o", "u", "d", " ", "S", "e", "c", "u", "r", "i", "t", "y">> -> <<<<"C", "l", "o", "u", "d">>, <<"S", "e", "c", "u", "r", "i", "t", "y">>>>
      [] t = <<"A", "I">> -> <<<<"A", "i">>, <<"I", "n", "t", "e", "l", "l", "i", "g", "e", "n", "c", "e">>>>
      [] t = <<>> -> <<<<"I", "n", "t", "e", "l", "l", "i", "g", "e", "n", "c", "e">>, <<"S", "y", "s", "t", "e", "m", "s">>>>

\* the values main_temp.py may give to word y of the summary
RemoteWord(y) ==
    IF y = 1 THEN {<<"Z", "e", "r", "o">>, <<"T", "o", "p", "i", "c">>, <<"E", "r", "r", "o", "r", ":">>} ELSE {<<"T", "r", "u", "s", "t">>, <<"E", "s", "s", "e", "n", "c", "e">>, <<"C", "o", "u", "l", "d">>}

\* original statement of C7: every topic token {{topicX_Y}}, whatever X, is
\* resolved to word Y of the capitalized two-word summary
C7_AnySlideIndex ==
    (ValidInput /\ pc = "rewrite") =>
        \A m \in DocTopicTokens :
            \E e \in MapEntries :
                /\ e[1] = m.lit
                /\ IF prog = "main" THEN e[2] = Summary(topic)[ToInt(m.groups[2])]
                   ELSE e[2] \in RemoteWord(ToInt(m.groups[2])) \cup {e[1]}

\* C7: the tokens {{topic1_1}} and {{topic1_2}} are resolved to word 1 and word 2
\* of the capitalized two-word summary (for topic "Cloud Security" of main.py:
\* "Cloud" and "Security"); a topic token with another slide index is not
\* resolved and stays verbatim in the text
C7_TopicOneOnly ==
    /\ (prog = "main" /\ pc \in {"rewrite", "save", "done"}) =>
          /\ \A y \in 1..2 :
                <<<<"{", "{", "t", "o", "p", "i", "c", "1", "_">> \o <<<<"1", "2">>[y]>> \o <<"}", "}">>, Summary(topic)[y]>> \in MapEntries
          /\ \A m \in DocTopicTokens :
                m.groups[1] # <<"1">> => ~\E e \in MapEntries : e[1] = m.lit
    /\ (prog = "main_temp" /\ pc \in {"rewrite", "fixup", "save", "done"}) =>
          \A m \in DocTopicTokens :
              LET v == text_placeholders[m.lit]
              IN IF m.groups[1] # <<"1">> THEN v = m.lit
                 ELSE CASE tasks[m.lit].outcome = "malformed" -> v = m.lit
                        [] tasks[m.lit].outcome = "request_error" ->
                              v = <<<<"E", "r", "r", "o", "r", ":">>, <<"C", "o", "u", "l", "d">>>>[ToInt(m.groups[2])]
                        [] OTHER -> v \in RemoteWord(ToInt(m.groups[2]))
    /\ (MainRewritten \/ TempRewritten) =>
          \A i \in DOMAIN AllParas(doc0) :
              (\E m \in TopicTokens(AllParas(doc0)[i]) :
                    m.lit = AllParas(doc0)[i] /\ m.groups[1] # <<"1">>)
                 => AllParas(doc)[i] = AllParas(doc0)[i]

\* a finished run of main.py on topic "Cloud Security" whose template holds the
\* topic tokens of slide index 1 and one of slide index 2
C7_Witness ==
    /\ prog = "main" /\ pc = "done" /\ topic = <<"C", "l", "o", "u", "d", " ", "S", "e", "c", "u", "r", "i", "t", "y">>
    /\ \E m, n \in DocTopicTokens : m.lit = <<"{", "{", "t", "o", "p", "i", "c", "1", "_", "2", "}", "}">> /\ n.lit = <<"{", "{", "t", "o", "p", "i", "c", "2", "_", "1", "}", "}">>
    /\ <<<<"{", "{", "t", "o", "p", "i", "c", "1", "_", "1", "}", "}">>, <<"C", "l", "o", "u", "d">>>> \in MapEntries
    /\ <<<<"{", "{", "t", "o", "p", "i", "c", "1", "_", "2", "}", "}">>, <<"S", "e", "c", "u", "r", "i", "t", "y">>>> \in MapEntries

\* C8: without a template or with an empty topic the run stops before any work:
\* nothing is scanned, resolved or rewritten, no request is sent, no file written
C8_AbortBeforeWork ==
    (~templateExists \/ topic = <<>>) =>
        /\ pc \in {"start", "aborted"}
        /\ calls = <<>>
        /\ doc = doc0
        /\ output = NoFile

\* a text holds a token of the grammar: a known kind with well-formed parameters
HasRecognized(text) ==
    \/ \E pn \in {<<<<"t", "i", "t", "l", "e">>, 3>>, <<<<"s", "u", "b", "t", "i", "t", "l", "e">>, 3>>, <<<<"p", "a", "r", "a">>, 2>>, <<<<"b", "u", "l", "l", "e", "t">>, 2>>,
                  <<<<"t", "h", "a", "n", "k", "u", "m", "e", "s", "s">>, 0>>, <<<<"p", "e", "r", "s", "o", "n", "n", "a", "m", "e">>, 0>>, <<<<"g", "r", "a", "p", "h", "i", "m", "a", "g", "e">>, 0>>,
                  <<<<"i", "c", "o", "n">>, 1>>} : Search(text, pn[1], pn[2], TRUE)
    \/ \E m \in Range(FindIter(text, 1, <<"t", "o", "p", "i", "c">>, 2, TRUE)) : m.groups[2] \in {<<"1">>, <<"2">>}

\* C9: a text unit without a recognized token has the same text after the
\* rewrite pass (in runs where no remote call failed)
C9_UnrecognizedVerbatim ==
    LET before == IF prog = "main" THEN AllRuns(doc0) ELSE AllParas(doc0)
        after == IF prog = "main" THEN AllRuns(doc) ELSE AllParas(doc)
    IN (ValidInput /\ NoRemoteFailure /\ (MainRewritten \/ TempRewritten)) =>
          \A i \in DOMAIN before : ~HasRecognized(before[i]) => after[i] = before[i]

====
